---- MODULE Spec2Model ----
(***************************************************************************)
(* Wordly (src/app.js): the lookup pipeline of WordlyApp, the lookup       *)
(* client DictionaryAPI.fetchWord, the bounded history and favorites       *)
(* lists, and the localStorage adapter StorageManager.                     *)
(*                                                                         *)
(* A string is a sequence of character codes (UTF-16 code units), so that  *)
(* trim(), toLowerCase() and capitalize() are computed, not assumed.       *)
(***************************************************************************)
EXTENDS Integers, Sequences, FiniteSets, Bags, TLC

VARIABLES
    state,      \* WordlyApp.state: currentWord, searchHistory, favorites
    store,      \* localStorage: the JSON text under each STORAGE_KEYS key
    ui,         \* the DOM fields UIManager and searchWord write
    requests,   \* the bag of fetchWord calls in flight
    started,    \* initializeApp has run app.initialize()
    last,       \* the handler that ran last, how it ended, and whether it
                \* was the second of two clicks in a row on the favorite button
    isDark,     \* ThemeManager.isDark
    call        \* the call of a StorageManager or DictionaryAPI helper made
                \* last: the method, its arguments and what it returned

vars == <<state, store, ui, requests, started, last, isDark, call>>

-----------------------------------------------------------------------------
(* Bounds of the model *)

\* at most this many fetchWord calls are in flight at once
MaxInflight == 2

-----------------------------------------------------------------------------
(* Configuration *)

MAX_HISTORY_ITEMS == 50
MAX_FAVORITES_ITEMS == 100

\* 'language'
DEFAULT_WORD == <<108, 97, 110, 103, 117, 97, 103, 101>>

SEARCH_HISTORY == "wordly_search_history"
FAVORITES == "wordly_favorites"
THEME == "wordly_theme"
STORAGE_KEYS == {SEARCH_HISTORY, FAVORITES, THEME}

-----------------------------------------------------------------------------
(* Strings *)

\* the code units String.prototype.trim removes (the ASCII ones and NBSP)
WhiteSpace == {9, 10, 11, 12, 13, 32, 160}

RECURSIVE TrimStart(_)
TrimStart(s) ==
    IF s # <<>> /\ Head(s) \in WhiteSpace THEN TrimStart(Tail(s)) ELSE s

RECURSIVE TrimEnd(_)
TrimEnd(s) ==
    IF s # <<>> /\ s[Len(s)] \in WhiteSpace
    THEN TrimEnd(SubSeq(s, 1, Len(s) - 1))
    ELSE s

\* String.prototype.trim
Trim(s) == TrimEnd(TrimStart(s))

\* String.prototype.toLowerCase on the ASCII letters; the other code units
\* used here (CJK ideographs, white space) have no case
ToLowerCase(s) ==
    [i \in DOMAIN s |-> IF s[i] \in 65..90 THEN s[i] + 32 ELSE s[i]]

ToUpperCase(s) ==
    [i \in DOMAIN s |-> IF s[i] \in 97..122 THEN s[i] - 32 ELSE s[i]]

\* Utils.capitalize
capitalize(str) ==
    IF str = <<>> THEN <<>>
    ELSE ToUpperCase(SubSeq(str, 1, 1)) \o SubSeq(str, 2, Len(str))

\* Array.prototype.includes / indexOf(x) > -1
includes(list, x) == \E i \in DOMAIN list : list[i] = x

\* Array.prototype.indexOf, 1-based; 0 when absent
indexOf(list, x) ==
    LET at == {i \in DOMAIN list : list[i] = x}
    IN  IF at = {} THEN 0 ELSE CHOOSE i \in at : \A j \in at : i <= j

\* Array.prototype.filter(w => w !== x)
filterOut(list, x) == SelectSeq(list, LAMBDA w : w # x)

\* Array.prototype.splice(index, 1), 1-based
splice1(list, i) == SubSeq(list, 1, i - 1) \o SubSeq(list, i + 1, Len(list))

\* number of positions of list holding x
Occurrences(list, x) == Cardinality({i \in DOMAIN list : list[i] = x})

-----------------------------------------------------------------------------
(* StorageManager: localStorage holds text; a JSON text is modelled by its   *)
(* parse tree, tagged with the kind of value it encodes.                     *)

NoItem == [kind |-> "none", items |-> <<>>, flag |-> FALSE]

\* JSON.stringify of an array of strings
StringifyList(list) == [kind |-> "array", items |-> list, flag |-> FALSE]

\* JSON.stringify of a boolean
StringifyBool(b) == [kind |-> "bool", items |-> <<>>, flag |-> b]

\* save with the history key whatever key it is given
save_HistoryKey(st, key, text) == [st EXCEPT ![SEARCH_HISTORY] = text]

\* StorageManager.save: the store after a setItem that does not throw
save(st, key, text) == [st EXCEPT ![key] = text]

\* StorageManager.load of a list: getItem gives null for a missing key, and
\* the text of a list is never the empty string, so it is truthy
loadList(st, key, defaultValue) ==
    IF st[key].kind = "none" THEN defaultValue
    ELSE IF st[key].kind = "array" THEN st[key].items
    ELSE defaultValue

\* StorageManager.load of the theme flag
loadBool(st, key, defaultValue) ==
    IF st[key].kind = "bool" THEN st[key].flag ELSE defaultValue

-----------------------------------------------------------------------------
(* UIManager *)

showLoading(u) ==
    [u EXCEPT !.loadingHidden = FALSE,
              !.errorHidden = TRUE,
              !.wordDisplayHidden = TRUE]

hideLoading(u) == [u EXCEPT !.loadingHidden = TRUE]

hideError(u) == [u EXCEPT !.errorHidden = TRUE]

\* message is the word quoted in the message text, <<>> when it quotes none
showError(u, title, message) ==
    hideLoading([u EXCEPT !.errorTitle = title,
                          !.errorMessage = message,
                          !.errorHidden = FALSE,
                          !.wordDisplayHidden = TRUE])

updateFavoriteButton(u, isFavorite) == [u EXCEPT !.favoriteActive = isFavorite]

\* UIManager.renderWord: the DOM after it, and whether it threw. An entry
\* without a meanings array makes renderMeanings throw a TypeError after the
\* title and the favorite button were written and before the panel is shown.
renderWord(u, wordData, isFavorite) ==
    LET titled == updateFavoriteButton(
                      [u EXCEPT !.wordTitle = capitalize(wordData.word)],
                      isFavorite)
    IN  IF ~wordData.meanings
        THEN [ui |-> titled, threw |-> TRUE]
        ELSE [ui |-> hideError(hideLoading(
                        [titled EXCEPT !.wordDisplayHidden = FALSE])),
              threw |-> FALSE]

\* the orchestrator states of the specification, read off the three panels
Loading == ~ui.loadingHidden
Displaying == ~ui.wordDisplayHidden
InError == ~ui.errorHidden

-----------------------------------------------------------------------------
(* DictionaryAPI.fetchWord *)

NullWord == [kind |-> "null", word |-> <<>>, meanings |-> FALSE]
UndefinedWord == [kind |-> "undefined", word |-> <<>>, meanings |-> FALSE]
Entry(word, meanings) ==
    [kind |-> "entry", word |-> word, meanings |-> meanings]

\* the HTTP statuses the service answers with
Statuses == {200, 404, 500}

\* the bodies a 200 response can carry for a word: text that is not JSON (or a
\* body stream that breaks), an empty candidate array, an entry of the word,
\* an entry without its meanings array
Bodies(word) ==
    { [valid |-> FALSE, data |-> <<>>],
      [valid |-> TRUE, data |-> <<>>],
      [valid |-> TRUE, data |-> <<Entry(word, TRUE)>>],
      [valid |-> TRUE, data |-> <<Entry(word, FALSE)>>] }

\* the catch block of fetchWord: the message of the error it throws for an
\* error of the given name and message caught from the try block
fetchWordCatch(name, message) ==
    IF name = "AbortError" THEN "TIMEOUT"
    ELSE IF message = "WORD_NOT_FOUND" THEN "WORD_NOT_FOUND"
    ELSE "NETWORK_ERROR"

\* the error fetchWord ends with for a response that is not ok: thrown inside
\* the try block, so it passes through the catch block
fetchWordNotOk(status) ==
    IF status = 404
    THEN fetchWordCatch("Error", "WORD_NOT_FOUND")
    ELSE fetchWordCatch("Error", "API_ERROR")

\* data[0] of the parsed body
firstResult(body) == IF body.data = <<>> THEN UndefinedWord ELSE body.data[1]

\* fetchWord called: the AbortController's timer is armed, fetch is pending
NewRequest(cleanWord) ==
    [word |-> cleanWord, stage |-> "fetching", timerArmed |-> TRUE]

\* the requests in flight, as a bag: two calls for the same word at the same
\* stage behave alike
Issue(reqs, r) == reqs (+) SetToBag({r})
Settle(reqs, r) == reqs (-) SetToBag({r})
InFlight == BagToSet(requests)

-----------------------------------------------------------------------------
(* WordlyApp: the lists *)

\* addToHistory without the filter: the word is prepended to the list as it is
addToHistory_NoFilter(searchHistory, word) ==
    LET unshifted == <<word>> \o searchHistory
    IN  IF Len(unshifted) > MAX_HISTORY_ITEMS
        THEN SubSeq(unshifted, 1, MAX_HISTORY_ITEMS)
        ELSE unshifted

\* addToHistory without the slice: the list is never cut
addToHistory_NoLimit(searchHistory, word) ==
    <<word>> \o filterOut(searchHistory, word)

\* addToHistory: the list it leaves in state.searchHistory
addToHistory(searchHistory, word) ==
    LET unshifted == <<word>> \o filterOut(searchHistory, word)
    IN  IF Len(unshifted) > MAX_HISTORY_ITEMS
        THEN SubSeq(unshifted, 1, MAX_HISTORY_ITEMS)
        ELSE unshifted

\* toggleFavorite testing length > MAX_FAVORITES_ITEMS: one item too late
toggleFavoriteList_OffByOne(favorites, word) ==
    LET index == indexOf(favorites, word)
    IN  IF index > 0
        THEN [favorites |-> splice1(favorites, index), outcome |-> "removed"]
        ELSE IF Len(favorites) > MAX_FAVORITES_ITEMS
        THEN [favorites |-> favorites, outcome |-> "rejected"]
        ELSE [favorites |-> Append(favorites, word), outcome |-> "added"]

\* toggleFavorite testing index > 0 on JavaScript's 0-based index: the first
\* favorite is never found
toggleFavoriteList_SkipsFirst(favorites, word) ==
    LET index == indexOf(favorites, word)
    IN  IF index > 1
        THEN [favorites |-> splice1(favorites, index), outcome |-> "removed"]
        ELSE IF Len(favorites) >= MAX_FAVORITES_ITEMS
        THEN [favorites |-> favorites, outcome |-> "rejected"]
        ELSE [favorites |-> Append(favorites, word), outcome |-> "added"]

\* toggleFavorite without the indexOf test: the word is pushed whenever there
\* is room
toggleFavoriteList_AlwaysPushes(favorites, word) ==
    IF Len(favorites) >= MAX_FAVORITES_ITEMS
    THEN [favorites |-> favorites, outcome |-> "rejected"]
    ELSE [favorites |-> Append(favorites, word), outcome |-> "added"]

\* toggleFavorite on the list: what it leaves in state.favorites, and whether
\* it removed, added or rejected (the alert and the early return)
toggleFavoriteList(favorites, word) ==
    LET index == indexOf(favorites, word)
    IN  IF index > 0
        THEN [favorites |-> splice1(favorites, index), outcome |-> "removed"]
        ELSE IF Len(favorites) >= MAX_FAVORITES_ITEMS
        THEN [favorites |-> favorites, outcome |-> "rejected"]
        ELSE [favorites |-> Append(favorites, word), outcome |-> "added"]

\* handleSearchError: the title and the word quoted for an error message
errorTitle(message) ==
    CASE message = "WORD_NOT_FOUND" -> "Word Not Found"
      [] message = "TIMEOUT" -> "Request Timeout"
      [] message = "NETWORK_ERROR" -> "Network Error"
      [] OTHER -> "Unexpected Error"

handleSearchError(u, message, word) ==
    showError(u, errorTitle(message),
              IF message = "WORD_NOT_FOUND" THEN word ELSE <<>>)

-----------------------------------------------------------------------------
(* The inputs of the model *)

\* ideographs: one-character words without case, all different
FillerWord(i) == <<19968 + i>>
FillerList(n) == [i \in 1..n |-> FillerWord(i)]

\* what the user types or clicks: '', ' ', ' A '
RawInputs == { <<>>, <<32>>, <<32, 65, 32>> }

\* what localStorage holds when the page is opened: nothing (a first visit),
\* or the lists earlier visits left: a full history whose oldest word is the
\* default word, which every visit looks up first, and favorites one short of
\* their capacity
StoredAtStart ==
    { [k \in STORAGE_KEYS |-> NoItem],
      [k \in STORAGE_KEYS |->
          CASE k = SEARCH_HISTORY ->
                   StringifyList(FillerList(MAX_HISTORY_ITEMS - 1)
                                 \o <<DEFAULT_WORD>>)
            [] k = FAVORITES ->
                   StringifyList(FillerList(MAX_FAVORITES_ITEMS - 1))
            [] OTHER -> NoItem] }

-----------------------------------------------------------------------------
(* WordlyApp *)

\* no helper has been called
NoCall == [fn |-> "none"]

\* the constructor's state
NewState ==
    [currentWord |-> NullWord, searchHistory |-> <<>>, favorites |-> <<>>]

\* the page as loaded: no panel shown, nothing typed
NewUI ==
    [loadingHidden |-> TRUE, errorHidden |-> TRUE, wordDisplayHidden |-> TRUE,
     errorTitle |-> "", errorMessage |-> <<>>, wordInput |-> <<>>,
     wordTitle |-> <<>>, favoriteActive |-> FALSE]

Did(op, result) ==
    [op |-> op, result |-> result,
     again |-> op = "toggleFavorite" /\ last.op = op]

Init ==
    /\ state = NewState
    /\ store \in StoredAtStart
    /\ ui = NewUI
    /\ requests = EmptyBag
    /\ started = FALSE
    /\ last = [op |-> "construct", result |-> "", again |-> FALSE]
    /\ isDark = FALSE
    /\ call = NoCall

\* searchWord aborting the requests it supersedes
searchWordStart_Aborts(u, reqs, word) ==
    IF word = <<>> \/ Trim(word) = <<>>
    THEN [ui |-> showError(u, "Invalid Input", <<>>),
          requests |-> reqs,
          result |-> "invalid"]
    ELSE LET cleanWord == ToLowerCase(Trim(word))
         IN  [ui |-> showLoading([u EXCEPT !.wordInput = cleanWord]),
              requests |-> Issue(EmptyBag, NewRequest(cleanWord)),
              result |-> "requested"]

\* searchWord up to its first await: the DOM and the requests in flight after
\* it, and whether it called fetchWord
searchWordStart(u, reqs, word) ==
    IF word = <<>> \/ Trim(word) = <<>>
    THEN [ui |-> showError(u, "Invalid Input", <<>>),
          requests |-> reqs,
          result |-> "invalid"]
    ELSE LET cleanWord == ToLowerCase(Trim(word))
         IN  [ui |-> showLoading([u EXCEPT !.wordInput = cleanWord]),
              requests |-> Issue(reqs, NewRequest(cleanWord)),
              result |-> "requested"]

\* the model keeps at most MaxInflight calls of fetchWord in flight
MayStart(reqs, word) ==
    Trim(word) = <<>> \/ BagCardinality(reqs) < MaxInflight

\* loadSavedData
loadSavedData(st) ==
    [currentWord |-> NullWord,
     searchHistory |-> loadList(st, SEARCH_HISTORY, <<>>),
     favorites |-> loadList(st, FAVORITES, <<>>)]

\* app.initialize(): loads the lists and looks up the default word
Initialize ==
    LET s == searchWordStart(ui, requests, DEFAULT_WORD)
    IN  /\ ~started
        /\ state' = loadSavedData(store)
        /\ ui' = s.ui
        /\ requests' = s.requests
        /\ started' = TRUE
        /\ last' = Did("initialize", s.result)
        /\ isDark' = loadBool(store, THEME, FALSE)
        /\ UNCHANGED <<store, call>>

\* searchWord(word), called by a word tag, a sidebar entry or the form
SearchWord(word) ==
    /\ started
    /\ MayStart(requests, word)
    /\ LET s == searchWordStart(ui, requests, word)
       IN  /\ ui' = s.ui
           /\ requests' = s.requests
           /\ last' = Did("searchWord", s.result)
    /\ UNCHANGED <<state, store, started, isDark, call>>

\* the submit handler of the search form
SubmitForm(value) ==
    /\ started
    /\ MayStart(requests, value)
    /\ LET word == Trim(value)
       IN  IF word # <<>>
           THEN LET s == searchWordStart(ui, requests, word)
                IN  /\ ui' = s.ui
                    /\ requests' = s.requests
                    /\ last' = Did("submit", s.result)
           ELSE /\ UNCHANGED <<ui, requests>>
                /\ last' = Did("submit", "ignored")
    /\ UNCHANGED <<state, store, started, isDark, call>>

\* a failed lookup calling fetchWord again for its word
SearchFails_Retries(r, message, op) ==
    /\ ui' = handleSearchError(ui, message, r.word)
    /\ requests' = Issue(Settle(requests, r), NewRequest(r.word))
    /\ last' = Did(op, message)
    /\ UNCHANGED <<state, store, started, isDark, call>>

\* fetchWord throws an error with this message and searchWord catches it
SearchFails(r, message, op) ==
    /\ ui' = handleSearchError(ui, message, r.word)
    /\ requests' = Settle(requests, r)
    /\ last' = Did(op, message)
    /\ UNCHANGED <<state, store, started, isDark, call>>

\* the response's status line and headers arrive: fetch resolves
Response(r, status) ==
    /\ r.stage = "fetching"
    /\ IF status = 200
       THEN /\ requests' = Issue(Settle(requests, r),
                                 [r EXCEPT !.stage = "reading",
                                           !.timerArmed = FALSE])
            /\ last' = Did("response", "ok")
            /\ UNCHANGED <<state, store, ui, started, isDark, call>>
       ELSE SearchFails(r, fetchWordNotOk(status), "response")

\* the transport fails (DNS, connection refused): fetch rejects
FetchFails(r) ==
    /\ r.stage = "fetching"
    /\ SearchFails(r, fetchWordCatch("TypeError", "Failed to fetch"),
                   "fetchFails")

\* API_CONFIG.TIMEOUT ms have passed since fetchWord was called and the call
\* has not returned: the timer, if it is still armed, aborts the request
TimeoutElapses(r) ==
    IF r.timerArmed
    THEN SearchFails(r, fetchWordCatch("AbortError", "aborted"), "timeout")
    ELSE /\ last' = Did("timeout", "no timer")
         /\ UNCHANGED <<state, store, ui, requests, started, isDark, call>>

\* the body arrives and response.json() settles; searchWord goes on
BodyArrives(r, body) ==
    /\ r.stage = "reading"
    /\ IF ~body.valid
       THEN SearchFails(r, fetchWordCatch("SyntaxError", "Unexpected token"),
                        "body")
       ELSE LET cleanWord == r.word
                wordData == firstResult(body)
            IN  IF wordData.kind = "undefined"
                THEN \* wordData.word throws a TypeError
                     /\ state' = [state EXCEPT !.currentWord = wordData]
                     /\ ui' = handleSearchError(ui, "TypeError", cleanWord)
                     /\ requests' = Settle(requests, r)
                     /\ last' = Did("body", "TypeError")
                     /\ UNCHANGED <<store, started, isDark, call>>
                ELSE LET history == addToHistory(state.searchHistory,
                                                 wordData.word)
                         isFavorite == includes(state.favorites, wordData.word)
                         rendered == renderWord(ui, wordData, isFavorite)
                     IN  /\ state' = [state EXCEPT
                                        !.currentWord = wordData,
                                        !.searchHistory = history]
                         /\ store' = save(store, SEARCH_HISTORY,
                                          StringifyList(history))
                         /\ ui' = IF rendered.threw
                                  THEN handleSearchError(rendered.ui,
                                                         "TypeError", cleanWord)
                                  ELSE rendered.ui
                         /\ requests' = Settle(requests, r)
                         /\ last' = Did("body",
                                IF rendered.threw THEN "render TypeError"
                                ELSE IF includes(state.searchHistory,
                                                 wordData.word)
                                THEN "moved"
                                ELSE "added")
                         /\ UNCHANGED <<started, isDark, call>>

\* toggleFavorite, the click handler of the favorite button
ToggleFavorite ==
    /\ started
    /\ IF state.currentWord.kind # "entry"
       THEN /\ last' = Did("toggleFavorite", "no word")
            /\ UNCHANGED <<state, store, ui>>
       ELSE LET word == state.currentWord.word
                t == toggleFavoriteList(state.favorites, word)
            IN  IF t.outcome = "rejected"
                THEN /\ last' = Did("toggleFavorite", "rejected")
                     /\ UNCHANGED <<state, store, ui>>
                ELSE /\ state' = [state EXCEPT !.favorites = t.favorites]
                     /\ store' = save(store, FAVORITES,
                                      StringifyList(t.favorites))
                     /\ ui' = updateFavoriteButton(
                                  ui, includes(t.favorites, word))
                     /\ last' = Did("toggleFavorite", t.outcome)
    /\ UNCHANGED <<requests, started, isDark, call>>

\* clearHistory clearing whatever the user answers
ClearHistory_Unasked(confirmed) ==
    /\ started
    /\ state' = [state EXCEPT !.searchHistory = <<>>]
    /\ store' = save(store, SEARCH_HISTORY, StringifyList(<<>>))
    /\ last' = Did("clearHistory",
                   IF confirmed THEN "cleared" ELSE "declined")
    /\ UNCHANGED <<ui, requests, started, isDark, call>>

\* clearHistory; confirmed is the user's answer to confirm()
ClearHistory(confirmed) ==
    /\ started
    /\ IF confirmed
       THEN /\ state' = [state EXCEPT !.searchHistory = <<>>]
            /\ store' = save(store, SEARCH_HISTORY, StringifyList(<<>>))
            /\ last' = Did("clearHistory", "cleared")
       ELSE /\ last' = Did("clearHistory", "declined")
            /\ UNCHANGED <<state, store>>
    /\ UNCHANGED <<ui, requests, started, isDark, call>>

\* clearFavorites leaving the favorite button as it is
ClearFavorites_KeepsButton(confirmed) ==
    /\ started
    /\ IF confirmed
       THEN /\ state' = [state EXCEPT !.favorites = <<>>]
            /\ store' = save(store, FAVORITES, StringifyList(<<>>))
            /\ last' = Did("clearFavorites", "cleared")
            /\ UNCHANGED ui
       ELSE /\ last' = Did("clearFavorites", "declined")
            /\ UNCHANGED <<state, store, ui>>
    /\ UNCHANGED <<requests, started, isDark, call>>

\* clearFavorites
ClearFavorites(confirmed) ==
    /\ started
    /\ IF confirmed
       THEN /\ state' = [state EXCEPT !.favorites = <<>>]
            /\ store' = save(store, FAVORITES, StringifyList(<<>>))
            /\ ui' = IF state.currentWord.kind = "entry"
                     THEN updateFavoriteButton(ui, FALSE)
                     ELSE ui
            /\ last' = Did("clearFavorites", "cleared")
       ELSE /\ last' = Did("clearFavorites", "declined")
            /\ UNCHANGED <<state, store, ui>>
    /\ UNCHANGED <<requests, started, isDark, call>>

Next ==
    \/ Initialize
    \/ \E word \in RawInputs : SearchWord(word)
    \/ \E value \in RawInputs : SubmitForm(value)
    \/ \E r \in InFlight : \E status \in Statuses : Response(r, status)
    \/ \E r \in InFlight : FetchFails(r)
    \/ \E r \in InFlight : TimeoutElapses(r)
    \/ \E r \in InFlight : \E body \in Bodies(r.word) : BodyArrives(r, body)
    \/ ToggleFavorite
    \/ \E confirmed \in BOOLEAN : ClearHistory(confirmed)
    \/ \E confirmed \in BOOLEAN : ClearFavorites(confirmed)

Spec == Init /\ [][Next]_vars

-----------------------------------------------------------------------------
(* The application under fair timers: a timer that setTimeout armed and that  *)
(* clearTimeout has not cleared fires. The network and the user owe nothing:  *)
(* a response, a body or a click may never come.                              *)

\* the words fetchWord is called with
CleanWords ==
    {DEFAULT_WORD} \cup
        {ToLowerCase(Trim(word)) : word \in {w \in RawInputs : Trim(w) # <<>>}}

\* the callback of setTimeout runs for a request whose timer is armed
TimerFires(r) ==
    /\ r \in InFlight
    /\ r.timerArmed
    /\ TimeoutElapses(r)

SpecLive ==
    /\ Init
    /\ [][Next]_vars
    /\ \A word \in CleanWords : WF_vars(TimerFires(NewRequest(word)))

-----------------------------------------------------------------------------
(* ThemeManager: the application with its theme button *)

\* a first visit, or a visit after the dark theme was chosen
InitTheme ==
    /\ state = NewState
    /\ \E dark \in BOOLEAN :
          store = [k \in STORAGE_KEYS |->
                      IF k = THEME /\ dark THEN StringifyBool(TRUE)
                      ELSE NoItem]
    /\ ui = NewUI
    /\ requests = EmptyBag
    /\ started = FALSE
    /\ last = [op |-> "construct", result |-> "", again |-> FALSE]
    /\ isDark = FALSE
    /\ call = NoCall

\* ThemeManager.toggle, the click handler of the theme button (apply() sets
\* the data-theme attribute and the icon from isDark)
ToggleTheme ==
    /\ started
    /\ isDark' = ~isDark
    /\ store' = save(store, THEME, StringifyBool(~isDark))
    /\ last' = Did("toggleTheme", IF isDark THEN "light" ELSE "dark")
    /\ UNCHANGED <<state, ui, requests, started, call>>

NextTheme == Next \/ ToggleTheme

SpecTheme == InitTheme /\ [][NextTheme]_vars

-----------------------------------------------------------------------------
(* StorageManager.save and load on the text of a value: JSON.stringify and   *)
(* JSON.parse are computed on code units, for the values below.              *)

\* numbers are 0..MaxNumber, arrays hold at most MaxItems elements
MaxNumber == 1
MaxItems == 1

JValue(kind, flag, num, chars, items) ==
    [kind |-> kind, flag |-> flag, num |-> num, chars |-> chars,
     items |-> items]

JNull == JValue("null", FALSE, 0, <<>>, <<>>)
JBool(b) == JValue("bool", b, 0, <<>>, <<>>)
JNumber(n) == JValue("number", FALSE, n, <<>>, <<>>)
JString(chars) == JValue("string", FALSE, 0, chars, <<>>)
JArray(items) == JValue("array", FALSE, 0, <<>>, items)

\* null, false, true, numbers, '', 'a' and '"'
Scalars ==
    {JNull, JBool(FALSE), JBool(TRUE)}
        \cup {JNumber(n) : n \in 0..MaxNumber}
        \cup {JString(<<>>), JString(<<97>>), JString(<<34>>)}

\* what the arrays hold: 'a' and []
Elements == {JString(<<97>>), JArray(<<>>)}

Arrays ==
    {JArray(items) : items \in UNION {[1..n -> Elements] : n \in 0..MaxItems}}

\* the values saved
Values == Scalars \cup Arrays

\* the defaults given to load: null (the parameter's default), false (the
\* theme), [] (the lists), and true
Defaults == {JNull, JBool(FALSE), JArray(<<>>), JBool(TRUE)}

\* JavaScript's truthiness of a value
Truthy(v) ==
    CASE v.kind = "null" -> FALSE
      [] v.kind = "bool" -> v.flag
      [] v.kind = "number" -> v.num # 0
      [] v.kind = "string" -> v.chars # <<>>
      [] OTHER -> TRUE

\* the decimal digits of a natural number
RECURSIVE Digits(_)
Digits(n) ==
    IF n < 10 THEN <<48 + n>> ELSE Digits(n \div 10) \o <<48 + (n % 10)>>

\* the characters of a string literal: '"' and '\' are escaped
RECURSIVE Quoted(_)
Quoted(chars) ==
    IF chars = <<>> THEN <<>>
    ELSE (IF Head(chars) \in {34, 92} THEN <<92, Head(chars)>>
          ELSE <<Head(chars)>>) \o Quoted(Tail(chars))

\* JSON.stringify
RECURSIVE stringify(_)
RECURSIVE stringifyItems(_)
stringifyItems(items) ==
    IF items = <<>> THEN <<>>
    ELSE IF Len(items) = 1 THEN stringify(items[1])
    ELSE stringify(Head(items)) \o <<44>> \o stringifyItems(Tail(items))

stringify(v) ==
    CASE v.kind = "null" -> <<110, 117, 108, 108>>
      [] v.kind = "bool" -> IF v.flag THEN <<116, 114, 117, 101>>
                            ELSE <<102, 97, 108, 115, 101>>
      [] v.kind = "number" -> Digits(v.num)
      [] v.kind = "string" -> <<34>> \o Quoted(v.chars) \o <<34>>
      [] OTHER -> <<91>> \o stringifyItems(v.items) \o <<93>>

StartsWith(text, prefix) ==
    /\ Len(text) >= Len(prefix)
    /\ SubSeq(text, 1, Len(prefix)) = prefix

Drop(text, n) == SubSeq(text, n + 1, Len(text))

\* a parser's result: whether it read a value, the value, the text left
Parsed(value, rest) == [ok |-> TRUE, value |-> value, rest |-> rest]
Unparsed == [ok |-> FALSE, value |-> JNull, rest |-> <<>>]

RECURSIVE parseDigits(_, _)
parseDigits(text, n) ==
    IF text # <<>> /\ Head(text) \in 48..57
    THEN parseDigits(Tail(text), 10 * n + Head(text) - 48)
    ELSE Parsed(JNumber(n), text)

\* the rest of a string literal, after its opening quote
RECURSIVE parseChars(_, _)
parseChars(text, chars) ==
    IF text = <<>> THEN Unparsed
    ELSE IF Head(text) = 34 THEN Parsed(JString(chars), Tail(text))
    ELSE IF Head(text) = 92
    THEN IF Len(text) < 2 THEN Unparsed
         ELSE parseChars(Drop(text, 2), Append(chars, text[2]))
    ELSE parseChars(Tail(text), Append(chars, Head(text)))

RECURSIVE parseValue(_)
RECURSIVE parseElements(_, _)
parseElements(text, items) ==
    LET r == parseValue(text)
    IN  IF ~r.ok \/ r.rest = <<>> THEN Unparsed
        ELSE IF Head(r.rest) = 44
        THEN parseElements(Tail(r.rest), Append(items, r.value))
        ELSE IF Head(r.rest) = 93
        THEN Parsed(JArray(Append(items, r.value)), Tail(r.rest))
        ELSE Unparsed

parseValue(text) ==
    IF text = <<>> THEN Unparsed
    ELSE IF StartsWith(text, <<110, 117, 108, 108>>)
    THEN Parsed(JNull, Drop(text, 4))
    ELSE IF StartsWith(text, <<116, 114, 117, 101>>)
    THEN Parsed(JBool(TRUE), Drop(text, 4))
    ELSE IF StartsWith(text, <<102, 97, 108, 115, 101>>)
    THEN Parsed(JBool(FALSE), Drop(text, 5))
    ELSE IF Head(text) \in 48..57 THEN parseDigits(text, 0)
    ELSE IF Head(text) = 34 THEN parseChars(Tail(text), <<>>)
    ELSE IF Head(text) = 91
    THEN IF Len(text) >= 2 /\ text[2] = 93
         THEN Parsed(JArray(<<>>), Drop(text, 2))
         ELSE parseElements(Tail(text), <<>>)
    ELSE Unparsed

\* JSON.parse: the value, or a SyntaxError thrown
JSONparse(text) ==
    LET r == parseValue(text)
    IN  IF r.ok /\ r.rest = <<>>
        THEN [threw |-> FALSE, value |-> r.value]
        ELSE [threw |-> TRUE, value |-> JNull]

\* what localStorage.getItem gives: null for a key without an item
Absent == [present |-> FALSE, text |-> <<>>]
Item(text) == [present |-> TRUE, text |-> text]

\* load testing the parsed value where the code tests the text
load_TestsParsed(st, key, defaultValue) ==
    LET value == st[key]
    IN  IF ~value.present THEN defaultValue
        ELSE LET p == JSONparse(value.text)
             IN  IF p.threw THEN defaultValue
                 ELSE IF Truthy(p.value) THEN p.value
                 ELSE defaultValue

\* StorageManager.load: value ? JSON.parse(value) : defaultValue, and the
\* default when JSON.parse throws
load(st, key, defaultValue) ==
    LET value == st[key]
    IN  IF value.present /\ value.text # <<>>
        THEN LET p == JSONparse(value.text)
             IN  IF p.threw THEN defaultValue ELSE p.value
        ELSE defaultValue

\* localStorage without an item
InitStore ==
    /\ state = NewState
    /\ store = [k \in STORAGE_KEYS |-> Absent]
    /\ ui = NewUI
    /\ requests = EmptyBag
    /\ started = FALSE
    /\ last = [op |-> "construct", result |-> "", again |-> FALSE]
    /\ isDark = FALSE
    /\ call = NoCall

\* StorageManager.save(key, value), setItem not throwing
Save(key, value) ==
    /\ store' = save(store, key, Item(stringify(value)))
    /\ call' = [fn |-> "save", key |-> key, value |-> value,
                ret |-> JBool(TRUE)]
    /\ UNCHANGED <<state, ui, requests, started, last, isDark>>

\* StorageManager.load(key, defaultValue)
Load(key, defaultValue) ==
    /\ call' = [fn |-> "load", key |-> key, value |-> defaultValue,
                ret |-> load(store, key, defaultValue)]
    /\ UNCHANGED <<state, store, ui, requests, started, last, isDark>>

NextStore ==
    \/ \E key \in STORAGE_KEYS : \E value \in Values : Save(key, value)
    \/ \E key \in STORAGE_KEYS : \E defaultValue \in Defaults :
          Load(key, defaultValue)

SpecStore == InitStore /\ [][NextStore]_vars

-----------------------------------------------------------------------------
(* DictionaryAPI.collectSynonyms and collectAntonyms, which renderWord calls  *)
(* with the meanings of the entry it renders. A list that is missing is the   *)
(* empty list here: the code skips both.                                      *)

\* an entry has at most this many meanings
MaxMeanings == 2

\* Set.prototype.add: a Set keeps its elements in insertion order
setAdd(set, x) == IF includes(set, x) THEN set ELSE Append(set, x)

\* list.forEach(x => set.add(x))
RECURSIVE addEach(_, _)
addEach(set, list) ==
    IF list = <<>> THEN set ELSE addEach(setAdd(set, Head(list)), Tail(list))

\* meaning.definitions.forEach(def => ...) of collectSynonyms
RECURSIVE definitionsSynonyms(_, _)
definitionsSynonyms(set, definitions) ==
    IF definitions = <<>> THEN set
    ELSE LET def == Head(definitions)
         IN  definitionsSynonyms(
                 IF Len(def.synonyms) > 0 THEN addEach(set, def.synonyms)
                 ELSE set,
                 Tail(definitions))

\* the forEach of collectSynonyms reading the definitions of a meaning before
\* the meaning's own list
RECURSIVE meaningsSynonyms_DefinitionsFirst(_, _)
meaningsSynonyms_DefinitionsFirst(set, meanings) ==
    IF meanings = <<>> THEN set
    ELSE LET meaning == Head(meanings)
             withDefinitions == definitionsSynonyms(set, meaning.definitions)
         IN  meaningsSynonyms_DefinitionsFirst(
                 IF Len(meaning.synonyms) > 0
                 THEN addEach(withDefinitions, meaning.synonyms)
                 ELSE withDefinitions,
                 Tail(meanings))

collectSynonyms_DefinitionsFirst(meanings) ==
    meaningsSynonyms_DefinitionsFirst(<<>>, meanings)

\* meanings.forEach(meaning => ...) of collectSynonyms
RECURSIVE meaningsSynonyms(_, _)
meaningsSynonyms(set, meanings) ==
    IF meanings = <<>> THEN set
    ELSE LET meaning == Head(meanings)
             withMeaning == IF Len(meaning.synonyms) > 0
                            THEN addEach(set, meaning.synonyms)
                            ELSE set
         IN  meaningsSynonyms(
                 definitionsSynonyms(withMeaning, meaning.definitions),
                 Tail(meanings))

\* DictionaryAPI.collectSynonyms: Array.from(synonymsSet)
collectSynonyms(meanings) == meaningsSynonyms(<<>>, meanings)

RECURSIVE definitionsAntonyms(_, _)
definitionsAntonyms(set, definitions) ==
    IF definitions = <<>> THEN set
    ELSE LET def == Head(definitions)
         IN  definitionsAntonyms(
                 IF Len(def.antonyms) > 0 THEN addEach(set, def.antonyms)
                 ELSE set,
                 Tail(definitions))

RECURSIVE meaningsAntonyms(_, _)
meaningsAntonyms(set, meanings) ==
    IF meanings = <<>> THEN set
    ELSE LET meaning == Head(meanings)
             withMeaning == IF Len(meaning.antonyms) > 0
                            THEN addEach(set, meaning.antonyms)
                            ELSE set
         IN  meaningsAntonyms(
                 definitionsAntonyms(withMeaning, meaning.definitions),
                 Tail(meanings))

\* DictionaryAPI.collectAntonyms
collectAntonyms(meanings) == meaningsAntonyms(<<>>, meanings)

\* the related words of the entries: 'a' and 'b'
WordA == <<97>>
WordB == <<98>>

Definition(synonyms, antonyms) ==
    [synonyms |-> synonyms, antonyms |-> antonyms]

Meaning(synonyms, antonyms, definitions) ==
    [synonyms |-> synonyms, antonyms |-> antonyms,
     definitions |-> definitions]

\* the definitions of a meaning: one without related words, one with a
\* synonym, one with the same word as synonym and as antonym, and two
\* definitions, the first naming a synonym twice
DefinitionLists ==
    { << Definition(<<>>, <<>>) >>,
      << Definition(<<WordA>>, <<>>) >>,
      << Definition(<<WordB>>, <<WordB>>) >>,
      << Definition(<<WordA, WordA>>, <<>>),
         Definition(<<WordB>>, <<WordA>>) >> }

\* meanings whose synonyms are richer than their antonyms
SynonymMeanings ==
    { Meaning(synonyms, antonyms, definitions) :
          synonyms \in { <<>>, <<WordA>>, <<WordB, WordA>> },
          antonyms \in { <<>>, <<WordA>> },
          definitions \in DefinitionLists }

\* the same meaning with synonyms and antonyms exchanged
SwapDefinitions(definitions) ==
    [i \in DOMAIN definitions |->
        Definition(definitions[i].antonyms, definitions[i].synonyms)]

SwapMeanings(meanings) ==
    [i \in DOMAIN meanings |->
        Meaning(meanings[i].antonyms, meanings[i].synonyms,
                SwapDefinitions(meanings[i].definitions))]

\* the meanings arrays renderWord is given
MeaningsLists ==
    LET lists == UNION {[1..n -> SynonymMeanings] : n \in 0..MaxMeanings}
    IN  lists \cup {SwapMeanings(meanings) : meanings \in lists}

\* renderWord has been called with an entry of some meanings
InitAggregate ==
    /\ state = NewState
    /\ store = [k \in STORAGE_KEYS |-> NoItem]
    /\ ui = NewUI
    /\ requests = EmptyBag
    /\ started = FALSE
    /\ last = [op |-> "construct", result |-> "", again |-> FALSE]
    /\ isDark = FALSE
    /\ \E meanings \in MeaningsLists :
          call = [fn |-> "renderWord", meanings |-> meanings, ret |-> <<>>]

\* renderWord calls collectSynonyms(wordData.meanings)
CollectSynonyms ==
    /\ call' = [fn |-> "collectSynonyms", meanings |-> call.meanings,
                ret |-> collectSynonyms(call.meanings)]
    /\ UNCHANGED <<state, store, ui, requests, started, last, isDark>>

\* renderWord calls collectAntonyms(wordData.meanings)
CollectAntonyms ==
    /\ call' = [fn |-> "collectAntonyms", meanings |-> call.meanings,
                ret |-> collectAntonyms(call.meanings)]
    /\ UNCHANGED <<state, store, ui, requests, started, last, isDark>>

NextAggregate == CollectSynonyms \/ CollectAntonyms

SpecAggregate == InitAggregate /\ [][NextAggregate]_vars

-----------------------------------------------------------------------------
(* Properties *)

History == state.searchHistory
Favorites == state.favorites
CurrentWord == state.currentWord

\* the lookup that just ended reached addToHistory and rendered its entry
LookupSucceeded == last.op = "body" /\ last.result \in {"added", "moved"}

\* the handler that just ran was a lookup ending in the error panel
LookupFailed ==
    /\ last.op \in {"response", "fetchFails", "timeout", "body"}
    /\ InError

\* C1: right after a successful lookup of a word W, W is the first element of
\* the history and occurs in it exactly once, whether W is new to the history
\* or was in it before.
C1_LookedUpWordHeadsHistoryOnce ==
    LookupSucceeded =>
        /\ History # <<>>
        /\ History[1] = CurrentWord.word
        /\ Occurrences(History, CurrentWord.word) = 1

\* a lookup succeeded for a word the history already held further down
C1_Witness ==
    /\ last.op = "body"
    /\ last.result = "moved"
    /\ History[1] = DEFAULT_WORD
    /\ Len(History) >= 2

\* C2: from stored lists within capacity, in every reachable state the
\* history has at most 50 items and the favorites at most 100.
C2_ListsWithinCapacity ==
    /\ Len(History) <= MAX_HISTORY_ITEMS
    /\ Len(Favorites) <= MAX_FAVORITES_ITEMS

\* both lists are full, and the oldest stored word has been evicted from the
\* history by a lookup of a new word
C2_Witness ==
    /\ LookupSucceeded
    /\ Len(History) = MAX_HISTORY_ITEMS
    /\ History[MAX_HISTORY_ITEMS] = FillerWord(MAX_HISTORY_ITEMS - 2)
    /\ Len(Favorites) = MAX_FAVORITES_ITEMS

\* C3: toggleFavorite for a current word that is not a favorite, with 100
\* favorites held, is rejected: the favorites in memory are unchanged and the
\* store is not written.
C3_ToggleAtCapacityRejected ==
    [][ ( /\ ToggleFavorite
          /\ CurrentWord.kind = "entry"
          /\ ~includes(Favorites, CurrentWord.word)
          /\ Len(Favorites) >= MAX_FAVORITES_ITEMS )
        => ( /\ Favorites' = Favorites
             /\ store' = store
             /\ last'.result = "rejected" ) ]_vars

\* a toggle has just been rejected with the list full
C3_Witness ==
    /\ last.op = "toggleFavorite"
    /\ last.result = "rejected"
    /\ CurrentWord.kind = "entry"
    /\ Len(Favorites) = MAX_FAVORITES_ITEMS
    /\ ~includes(Favorites, CurrentWord.word)

\* C4: two toggleFavorite calls in a row leave the current word's membership
\* in favorites as it was before the first one. The first call's outcome tells
\* the membership before it: it removed exactly when the word was a favorite.
C4_DoubleToggleRestoresMembership ==
    [][ ( /\ ToggleFavorite
          /\ last.op = "toggleFavorite"
          /\ last.result \in {"added", "removed", "rejected"} )
        => ( includes(Favorites', CurrentWord.word)
                = (last.result = "removed") ) ]_vars

\* the second of two toggles in a row has put back a word that the first one
\* removed from a list that was full
C4_Witness ==
    /\ last.op = "toggleFavorite"
    /\ last.again
    /\ last.result = "added"
    /\ Len(Favorites) = MAX_FAVORITES_ITEMS
    /\ includes(Favorites, CurrentWord.word)

\* the copies of request r in flight
Copies(reqs, r) == CopiesIn(r, reqs)

\* C5: for every empty or white-space-only word W, submit(W) puts the
\* orchestrator in Error(InvalidInput) and issues no request. (The submit
\* handler of the form returns without calling searchWord.)
C5_BlankSubmitIsInvalidInput ==
    [][ \A value \in RawInputs :
          ( /\ Trim(value) = <<>>
            /\ (SubmitForm(value) \/ SearchWord(value)) )
          => ( /\ InError'
               /\ ui'.errorTitle = "Invalid Input"
               /\ requests' = requests ) ]_vars

\* C6: a 404 response is NotFound, and any other status that is not a success
\* is Unknown, shown as the unexpected error and not as a network error.
\* (fetchWord's catch block turns its own API_ERROR into NETWORK_ERROR.)
C6_OtherStatusIsUnknown ==
    [][ \A r \in InFlight : \A status \in Statuses \ {200} :
          Response(r, status)
          => ( /\ InError'
               /\ ui'.errorTitle = IF status = 404 THEN "Word Not Found"
                                   ELSE "Unexpected Error" ) ]_vars

\* C7: a lookup that fails ends in Error(kind, word) and leaves the history
\* as it was, in memory and in the store; a 404 for W gives
\* Error(NotFound, W). (An entry that renderWord cannot render fails after
\* addToHistory has run and saved.)
C7_FailedLookupKeepsHistory ==
    [][ LookupFailed'
        => ( /\ History' = History
             /\ store'[SEARCH_HISTORY] = store[SEARCH_HISTORY]
             /\ \A r \in InFlight :
                  Response(r, 404)
                  => ( /\ ui'.errorTitle = "Word Not Found"
                       /\ ui'.errorMessage = r.word ) ) ]_vars

\* C8: a request not completed when the timeout has passed is cancelled and
\* its lookup ends in Error(Timeout), at whatever stage it is stalled. (The
\* timer is cleared once the status line has arrived, so a stalled body is
\* never cancelled.)
C8_StalledRequestTimesOut ==
    last.op = "timeout"
    => ( /\ last.result = "TIMEOUT"
         /\ InError
         /\ ui.errorTitle = "Request Timeout" )

\* C9: overlapping lookups are not ordered. A body that arrives with an entry
\* always becomes the current word, the displayed entry and the head of the
\* history, whatever was requested since (no stale response is discarded);
\* and a new searchWord leaves every request in flight as it is (no
\* superseded request is cancelled).
C9_LastResolvedWins ==
    [][ \A r \in InFlight :
          /\ ( /\ LookupSucceeded'
               /\ Copies(requests', r) < Copies(requests, r) )
             => ( /\ CurrentWord' = Entry(r.word, TRUE)
                  /\ Displaying'
                  /\ ui'.wordTitle = capitalize(r.word)
                  /\ History'[1] = r.word )
          /\ last'.op \in {"searchWord", "submit"}
             => Copies(requests', r) >= Copies(requests, r) ]_vars

\* both of two overlapping lookups have succeeded, and the entry displayed is
\* the one requested first: the input field holds the word requested after it,
\* whose entry arrived before
C9_Witness ==
    /\ LookupSucceeded
    /\ requests = EmptyBag
    /\ Displaying
    /\ ui.wordTitle = capitalize(DEFAULT_WORD)
    /\ CurrentWord.word = DEFAULT_WORD
    /\ ui.wordInput # DEFAULT_WORD
    /\ Len(History) >= 2
    /\ History[1] = DEFAULT_WORD
    /\ History[2] = ui.wordInput

\* C10: every handler that changes the history or the favorites writes the
\* new list to the store under the list's key before it returns, so between
\* handlers the persisted lists are the lists in memory and loadSavedData
\* would restore exactly these. (setItem is taken to succeed.)
C10_StoreHoldsTheLists ==
    started =>
        /\ loadSavedData(store).searchHistory = History
        /\ loadSavedData(store).favorites = Favorites
        /\ History # <<>> => store[SEARCH_HISTORY] = StringifyList(History)
        /\ Favorites # <<>> => store[FAVORITES] = StringifyList(Favorites)

\* a favorite has just been added after a lookup, both lists are written, and
\* the two keys hold different lists
C10_Witness ==
    /\ last.op = "toggleFavorite"
    /\ last.result = "added"
    /\ History # <<>>
    /\ store[SEARCH_HISTORY] = StringifyList(History)
    /\ store[FAVORITES] = StringifyList(Favorites)
    /\ History # Favorites

\* the handler that just ran was a clear, of the history or of the favorites
Cleared(op) == last.op = op /\ last.result = "cleared"
Declined(op) == last.op = op /\ last.result = "declined"

\* C11: clearHistory and clearFavorites change state only after the user
\* confirms. Declined, the list in memory and the persisted list are as they
\* were; accepted, the list in memory is empty and an empty list is persisted
\* under the list's key. (setItem is taken to succeed.)
C11_ClearOnlyWhenConfirmed ==
    [][ /\ (Declined("clearHistory")' \/ Declined("clearFavorites")')
           => (state' = state /\ store' = store)
        /\ Cleared("clearHistory")'
           => ( /\ History' = <<>>
                /\ store'[SEARCH_HISTORY] = StringifyList(<<>>)
                /\ loadSavedData(store').searchHistory = <<>> )
        /\ Cleared("clearFavorites")'
           => ( /\ Favorites' = <<>>
                /\ store'[FAVORITES] = StringifyList(<<>>)
                /\ loadSavedData(store').favorites = <<>> ) ]_vars

\* the user has just declined to clear a history that is full
C11_Witness ==
    /\ Declined("clearHistory")
    /\ Len(History) = MAX_HISTORY_ITEMS
    /\ store[SEARCH_HISTORY] = StringifyList(History)

\* C12: save(key, v) followed by load(key, default) returns v, for every value
\* v, false, 0, '', null and [] among them; and load of a key that was never
\* saved returns the default it is given. (setItem is taken to succeed.)
C12_SaveThenLoadReturnsValue ==
    [][ call'.fn = "load"
        => IF store[call'.key] = Absent
           THEN call'.ret = call'.value
           ELSE (call.fn = "save" /\ call.key = call'.key)
                => call'.ret = call.value ]_vars

\* false has just been loaded, with true as the default, from a key whose
\* item is the text 'false'
C12_Witness ==
    /\ call.fn = "load"
    /\ call.value = JBool(TRUE)
    /\ call.ret = JBool(FALSE)
    /\ store[call.key] = Item(<<102, 97, 108, 115, 101>>)

\* the synonyms of the meanings in the order of a scan: meaning by meaning,
\* the meaning's own list and then the lists of its definitions
RECURSIVE DefinitionsScan(_, _)
DefinitionsScan(definitions, field) ==
    IF definitions = <<>> THEN <<>>
    ELSE (IF field = "synonyms" THEN Head(definitions).synonyms
          ELSE Head(definitions).antonyms)
         \o DefinitionsScan(Tail(definitions), field)

RECURSIVE Scan(_, _)
Scan(meanings, field) ==
    IF meanings = <<>> THEN <<>>
    ELSE (IF field = "synonyms" THEN Head(meanings).synonyms
          ELSE Head(meanings).antonyms)
         \o DefinitionsScan(Head(meanings).definitions, field)
         \o Scan(Tail(meanings), field)

\* result holds every word of scan, no other, each once, in the order of
\* their first occurrences in scan
UniqueInFirstSeenOrder(result, scan) ==
    /\ \A i \in DOMAIN scan : includes(result, scan[i])
    /\ \A i \in DOMAIN result : includes(scan, result[i])
    /\ \A i, j \in DOMAIN result : result[i] = result[j] => i = j
    /\ \A i, j \in DOMAIN result :
          i < j => indexOf(scan, result[i]) < indexOf(scan, result[j])

\* C13: collectSynonyms (collectAntonyms) returns every synonym (antonym) of
\* the meanings and of their definitions, each exactly once, in the order of
\* first occurrence when the meanings are scanned in order and, within a
\* meaning, its own list before the lists of its definitions.
C13_AggregateUniqueFirstSeen ==
    /\ call.fn = "collectSynonyms"
       => UniqueInFirstSeenOrder(call.ret, Scan(call.meanings, "synonyms"))
    /\ call.fn = "collectAntonyms"
       => UniqueInFirstSeenOrder(call.ret, Scan(call.meanings, "antonyms"))

\* collectSynonyms has returned <<'b', 'a'>> for two meanings in which 'b'
\* occurs three times and 'a' four times, at both levels
C13_Witness ==
    /\ call.fn = "collectSynonyms"
    /\ call.ret = <<WordB, WordA>>
    /\ Len(call.meanings) = MaxMeanings
    /\ Scan(call.meanings, "synonyms")
         = <<WordB, WordA, WordA, WordA, WordB, WordA, WordB>>

\* the handler that just ran called searchWord with a word that is not blank
\* (the form, a word tag, a sidebar entry, or initialize with the default word)
Submitted ==
    /\ last.op \in {"initialize", "searchWord", "submit"}
    /\ last.result = "requested"

\* the handler that just ran ended a lookup, in the entry or in an error
LookupEnded ==
    \/ last.op \in {"fetchFails", "body"}
    \/ last.op = "response" /\ last.result # "ok"
    \/ last.op = "timeout" /\ last.result # "no timer"

\* C14: one request per call and one attempt. Every call of searchWord with a
\* word that is not blank puts exactly one request in flight, for that word;
\* no other step puts one in flight, and a lookup that ends, in whatever
\* failure, takes its request away and issues none. Step by step, the
\* requests issued are the searchWord calls with a word that is not blank.
C14_OneRequestPerSubmit ==
    [][ LET before == BagCardinality(requests)
            after == BagCardinality(requests')
            asked == NewRequest(ui'.wordInput)
        IN  /\ Submitted'
               => ( /\ after = before + 1
                    /\ Copies(requests', asked) = Copies(requests, asked) + 1 )
            /\ ~Submitted' => after <= before
            /\ LookupEnded' => after = before - 1 ]_vars

\* the only lookup has just failed on the network: nothing is in flight
C14_Witness ==
    /\ LookupFailed
    /\ last.result = "NETWORK_ERROR"
    /\ ui.errorTitle = "Network Error"
    /\ requests = EmptyBag

\* no word is held twice
NoDuplicates(list) ==
    Cardinality({list[i] : i \in DOMAIN list}) = Len(list)

\* C15: from stored lists without duplicates (by default, empty lists), in
\* every reachable state neither the history nor the favorites holds the
\* same word twice.
C15_ListsHoldNoWordTwice ==
    /\ NoDuplicates(History)
    /\ NoDuplicates(Favorites)

\* a word that the stored history already held has been looked up again and
\* then made a favorite, next to the stored favorites
C15_Witness ==
    /\ last.op = "toggleFavorite"
    /\ last.result = "added"
    /\ Len(History) = MAX_HISTORY_ITEMS
    /\ History[1] = DEFAULT_WORD
    /\ Len(Favorites) = MAX_FAVORITES_ITEMS
    /\ Favorites[MAX_FAVORITES_ITEMS] = DEFAULT_WORD

\* C16: the current word changes only in the success step of a lookup, where
\* it becomes the fetched entry, which is then displayed; a lookup ending in
\* Error, a toggleFavorite, a clear and a theme toggle leave it as it was.
\* (searchWord assigns currentWord before it reads wordData.word and before
\* renderWord: an empty candidate list leaves undefined there, and an entry
\* that cannot be rendered stays there, both with the error panel shown.)
C16_CurrentWordChangesOnlyOnSuccess ==
    [][ /\ CurrentWord' # CurrentWord
           => ( /\ LookupSucceeded'
                /\ CurrentWord'.kind = "entry"
                /\ Displaying' )
        /\ ( \/ LookupFailed'
             \/ last'.op \in {"toggleFavorite", "clearHistory",
                              "clearFavorites", "toggleTheme"} )
           => CurrentWord' = CurrentWord ]_vars

\* C17: every lookup that enters Loading leaves it, in Displaying or in Error,
\* with the loading indicator hidden, under fair timers and whatever the
\* network does. (clearTimeout runs when the status line has arrived: a
\* response whose body never arrives leaves the lookup in Loading for ever.)
C17_LoadingEnds ==
    Loading ~> (~Loading /\ (Displaying \/ InError))

\* C18: whenever an entry is displayed, the favorite button is active exactly
\* when the current word is in the favorites, after any interleaving of
\* lookups, overlapping ones included, of toggles, accepted or rejected, and
\* of clearFavorites.
C18_FavoriteButtonShowsMembership ==
    Displaying =>
        ( ui.favoriteActive
            <=> ( /\ CurrentWord.kind = "entry"
                  /\ includes(Favorites, CurrentWord.word) ) )

\* an entry is displayed while another lookup is in flight, and a toggle for
\* it has just been rejected: the favorites are full and the button is off
C18_Witness ==
    /\ Displaying
    /\ requests # EmptyBag
    /\ last.op = "toggleFavorite"
    /\ last.result = "rejected"
    /\ Len(Favorites) = MAX_FAVORITES_ITEMS
    /\ ~ui.favoriteActive

====
